---- MODULE Spec2Model ----
(***************************************************************************)
(* The notebook WAR_Analysis_and_Player_Clustering.ipynb as a state        *)
(* machine.  The notebook is run top to bottom; a code cell is one atomic  *)
(* action, and an exception raised inside a cell ends the run.             *)
(*                                                                         *)
(* The state is the kernel's namespace (df, X, y, X_train, X_test,         *)
(* X_scaled, X_pca, scores, best_k), the text and figures emitted so far   *)
(* (out) and the run's position (pc, err).  The environment is the CSV     *)
(* file (csv, fileOk) and the two quantities the libraries compute from    *)
(* the data that the model does not compute numerically: the silhouette    *)
(* score of the K-Means labelling at each K (sil) and the row permutation  *)
(* train_test_split draws from its seed (shift).  Both are fixed at the    *)
(* start of a run, since both are functions of the data and the seed.      *)
(*                                                                         *)
(* pandas and scikit-learn are modelled by their documented behaviour for  *)
(* the API the notebook is written against (mean_squared_error still       *)
(* accepts squared=False).  Cells hold finite numbers or the missing       *)
(* value NA.                                                               *)
(***************************************************************************)
EXTENDS Integers, Sequences, FiniteSets, TLC

VARIABLES csv, fileOk, sil, shift,
          pc, ran, err, out,
          df, X, y, X_train, X_test, coef,
          X_scaled, X_pca, scores, best_k,
          rawName, cleanName

vars == <<csv, fileOk, sil, shift, pc, ran, err, out, df, X, y, X_train,
          X_test, coef, X_scaled, X_pca, scores, best_k, rawName, cleanName>>

----------------------------------------------------------------------------
(* Bounds of the model. *)

\* Largest number of data rows of a CSV file.
MaxRows == 20

\* Largest number of distinct feature vectors in a CSV file.
MaxPts == 10

\* Silhouette scores are drawn from 0..MaxScore (an order-preserving image
\* of the real interval [-1, 1]).
MaxScore == 1

\* The permutation of train_test_split is a rotation by 0..MaxShift rows.
MaxShift == 1

\* Longest raw column name, in characters.
MaxLen == 3

----------------------------------------------------------------------------
(* Generic helpers. *)

Range(s) == {s[i] : i \in 1..Len(s)}

Min(a, b) == IF a <= b THEN a ELSE b

\* The missing value (NaN) of a pandas cell; every real cell value is >= 0.
NA == -1

\* The kernel's value of a name that has not been assigned yet.
None == <<>>

----------------------------------------------------------------------------
(* Cell c898d52f: the feature list. *)

features == <<"on_base_percent", "slg_percent", "isolated_power",
              "k_percent", "bb_percent", "exit_velocity_avg",
              "sprint_speed", "wrcplus", "f_fielding", "spd">>

target == "war"

\* features + ['war'], the subset dropna looks at.
dropnaSubset == features \o <<target>>

FeatIndex(c) == CHOOSE j \in 1..Len(features) : features[j] = c

----------------------------------------------------------------------------
(* The CSV files a run may be given (after the Loader's normalisation of   *)
(* the header, which NormalizeName models character by character).        *)

FullHeader == <<"first", "last">> \o features \o <<target>>

\* A header lacking the feature column c, or the identity column c.
HeaderWithout(c) == SelectSeq(FullHeader, LAMBDA h : h # c)

\* The value row number i (1-based), holding feature vector number p, has in
\* column c: feature vector p is the p-th unit vector (the zero vector when p
\* exceeds the number of features), war is p, the identity fields are i.
CellValue(i, p, c) ==
    IF c \in Range(features) THEN (IF FeatIndex(c) = p THEN 1 ELSE 0)
    ELSE IF c = target THEN p
    ELSE i

\* The columns that are missing in row i of n under a defect: a defect is a
\* column and the rows it is missing in; "rot" blanks a different feature in
\* every row.
DefectCols == {"on_base_percent", "spd", "war", "first"}

DefectRows == {"head", "tail", "odd", "all"}

NoDefect == [col |-> "first", rows |-> "none"]

Defects == {NoDefect, [col |-> "spd", rows |-> "rot"]}
           \cup [col : DefectCols, rows : DefectRows]

MissingIn(i, n, def) ==
    CASE def.rows = "none" -> {}
      [] def.rows = "head" -> IF i = 1 THEN {def.col} ELSE {}
      [] def.rows = "tail" -> IF i = n THEN {def.col} ELSE {}
      [] def.rows = "odd"  -> IF i % 2 = 1 THEN {def.col} ELSE {}
      [] def.rows = "all"  -> {def.col}
      [] def.rows = "rot"  -> {features[((i - 1) % Len(features)) + 1]}

\* A file of n rows over header hdr with d distinct feature vectors.  A row
\* is its pandas index label (0-based position in the file) and its cells.
MkTable(n, d, hdr, def) ==
    [cols |-> hdr,
     rows |-> [i \in 1..n |->
                 [id |-> i - 1,
                  cells |-> [c \in Range(hdr) |->
                               IF c \in MissingIn(i, n, def) THEN NA
                               ELSE CellValue(i, ((i - 1) % d) + 1, c)]]]]

PointCounts == {1, 2, MaxPts - 1, MaxPts}

Tables ==
    {MkTable(n, d, FullHeader, def) :
        n \in 0..MaxRows, d \in PointCounts, def \in Defects}
    \cup
    {MkTable(n, d, HeaderWithout(c), NoDefect) :
        n \in 0..MaxRows, d \in PointCounts, c \in {"spd", "first"}}

\* The files the K search is examined on: fully populated, MaxPts rows.
ScoreTables ==
    {MkTable(MaxPts, d, FullHeader, NoDefect) : d \in {2, MaxPts}}

----------------------------------------------------------------------------
(* The silhouette oracle: the score of the K-Means labelling at each K. *)

Ks == 2..9

SilOracles == [Ks -> 0..MaxScore]

\* All candidates tie; a single best candidate at K = 3.
BasicOracles == {[k \in Ks |-> 0], [k \in Ks |-> IF k = 3 THEN 1 ELSE 0]}

----------------------------------------------------------------------------
(* Running cells: the order of the code cells and what an exception does. *)

StageOf(p) ==
    CASE p = "load"    -> "Loader"
      [] p = "prepare" -> "FeaturePreparer"
      [] p = "regress" -> "Regressor"
      [] p = "cluster" -> "Clusterer"
      [] p = "plot"    -> "Reporter"
      [] p = "samples" -> "Reporter"
      [] OTHER         -> "none"

NextCell(p) ==
    CASE p = "load"    -> "prepare"
      [] p = "prepare" -> "regress"
      [] p = "regress" -> "cluster"
      [] p = "cluster" -> "plot"
      [] p = "plot"    -> "samples"
      [] p = "samples" -> "done"
      [] OTHER         -> p

\* Where the run goes when the cell at p raises: nowhere, the run is over.
AfterErrorContinue(p) == NextCell(p)

AfterError(p) == "halted"

\* What a cell emits: a printed line or a displayed figure, list or frame.
Line(kind, name, k, ids) == [kind |-> kind, name |-> name, k |-> k, ids |-> ids]

NoError == [cell |-> "none", stage |-> "none", exc |-> "none", cause |-> "none"]

\* The exception a cell raised: the cell, its stage, the Python exception and
\* the condition that raised it.
Error(p, exc, cause) ==
    [cell |-> p, stage |-> StageOf(p), exc |-> exc, cause |-> cause]

----------------------------------------------------------------------------
(* Cell b3be6b79: read_csv and the normalisation of the column names.      *)
(* A column name is a sequence of one-character strings.                   *)

Whitespace == {" ", "\t"}

\* str.strip(): leading and trailing whitespace removed.
RECURSIVE LStrip(_)
LStrip(s) ==
    IF s # <<>> /\ Head(s) \in Whitespace THEN LStrip(Tail(s)) ELSE s

RECURSIVE RStrip(_)
RStrip(s) ==
    IF s # <<>> /\ s[Len(s)] \in Whitespace
    THEN RStrip(SubSeq(s, 1, Len(s) - 1)) ELSE s

\* A strip that only removes leading whitespace.
StripLeftOnly(s) == LStrip(s)

Strip(s) == RStrip(LStrip(s))

\* str.lower() on one character.
LowerChar(ch) ==
    CASE ch = "W" -> "w"
      [] OTHER    -> ch

\* A lower() that is forgotten.
LowerMissing(s) == s

Lower(s) == [i \in 1..Len(s) |-> LowerChar(s[i])]

\* str.replace(ch, rep) for a single character ch: every occurrence, left to
\* right (a one-character pattern is literal, also where regex is the default).
RECURSIVE Replace(_, _, _)
Replace(s, ch, rep) ==
    IF s = <<>> THEN <<>>
    ELSE (IF Head(s) = ch THEN rep ELSE <<Head(s)>>)
         \o Replace(Tail(s), ch, rep)

Plus == <<"p", "l", "u", "s">>

Percent == <<"p", "e", "r", "c", "e", "n", "t">>

\* .str.strip().str.lower().str.replace(' ', '_').str.replace('+', 'plus')
\* .str.replace('%', 'percent')
NormalizeName(s) ==
    Replace(Replace(Replace(Lower(Strip(s)), " ", <<"_">>), "+", Plus),
            "%", Percent)

\* The raw characters of the model and the raw names built from them.
RawChars == {"W", "c", " ", "\t", "+", "%"}

RECURSIVE NamesUpTo(_)
NamesUpTo(n) ==
    IF n = 0 THEN {<<>>}
    ELSE LET shorter == NamesUpTo(n - 1)
         IN  shorter \cup {Append(s, ch) : s \in shorter, ch \in RawChars}

RawNames == NamesUpTo(MaxLen)

\* The raw name the data runs carry: " wRC+" in the model's characters.
SampleName == <<" ", "W", "+">>

Loader ==
    /\ pc = "load"
    /\ ran' = Append(ran, pc)
    /\ IF fileOk
       THEN /\ df' = csv
            /\ cleanName' = NormalizeName(rawName)
            /\ out' = Append(out, Line("columns", "", Len(df'.cols), <<>>))
            /\ pc' = NextCell(pc)
            /\ err' = err
       ELSE /\ pc' = AfterError(pc)
            /\ err' = Error(pc, "FileNotFoundError", "file_not_found")
            /\ UNCHANGED <<df, cleanName, out>>
    /\ UNCHANGED <<csv, fileOk, sil, shift, X, y, X_train, X_test, coef,
                   X_scaled, X_pca, scores, best_k, rawName>>

----------------------------------------------------------------------------
(* Cell c898d52f: dropna, X and y. *)

HasColumns(t, cs) == Range(cs) \subseteq Range(t.cols)

\* A row passes dropna(subset=cs) when none of its cells in cs is missing.
NotNA(row, cs) == \A j \in 1..Len(cs) : row.cells[cs[j]] # NA

\* dropna(how='all'): a row goes only when all its cells in cs are missing.
NotAllNA(row, cs) == \E j \in 1..Len(cs) : row.cells[cs[j]] # NA

\* dropna over the features alone, the target forgotten.
DropNAFeaturesOnly(t, cs) ==
    [t EXCEPT !.rows = SelectSeq(t.rows, LAMBDA r : NotNA(r, features))]

\* dropna that keeps a row unless all of the subset is missing.
DropNAHowAll(t, cs) ==
    [t EXCEPT !.rows = SelectSeq(t.rows, LAMBDA r : NotAllNA(r, cs))]

\* df.dropna(subset=cs): the rows that pass, in their order, labels kept.
DropNA(t, cs) ==
    [t EXCEPT !.rows = SelectSeq(t.rows, LAMBDA r : NotNA(r, cs))]

\* df[cs]: the columns cs in that order, every row and its label kept.
SelectColumns(t, cs) ==
    [cols |-> cs,
     rows |-> [i \in 1..Len(t.rows) |->
                 [id |-> t.rows[i].id,
                  cells |-> [c \in Range(cs) |-> t.rows[i].cells[c]]]]]

\* df[c]: a Series, one labelled value per row.
SelectSeries(t, c) ==
    [i \in 1..Len(t.rows) |->
        [id |-> t.rows[i].id, val |-> t.rows[i].cells[c]]]

EmptyTable == [cols |-> <<>>, rows |-> <<>>]

Preparer ==
    /\ pc = "prepare"
    /\ ran' = Append(ran, pc)
    /\ IF HasColumns(df, dropnaSubset)
       THEN /\ df' = DropNA(df, dropnaSubset)
            /\ X' = SelectColumns(df', features)
            /\ y' = SelectSeries(df', target)
            /\ pc' = NextCell(pc)
            /\ err' = err
       ELSE /\ pc' = AfterError(pc)
            /\ err' = Error(pc, "KeyError", "missing_column")
            /\ UNCHANGED <<df, X, y>>
    /\ UNCHANGED <<csv, fileOk, sil, shift, out, X_train, X_test, coef,
                   X_scaled, X_pca, scores, best_k, rawName, cleanName>>

----------------------------------------------------------------------------
(* Cell 68f6b9cd: train_test_split, LinearRegression, the printed report. *)

\* test_size=0.2: ceil(0.2 * n) test rows, the rest train rows.
NTest(n) == (n + 4) \div 5

NTrain(n) == n - NTest(n)

\* train_test_split raises ValueError when the train set would be empty.
SplitFails(n) == NTrain(n) = 0

\* The positions (1-based) the seeded permutation sends to the test set.
TestPositions(n) == {((j + shift) % n) + 1 : j \in 0..(NTest(n) - 1)}

RECURSIVE Pick(_, _, _)
Pick(rows, keep, i) ==
    IF i > Len(rows) THEN <<>>
    ELSE (IF i \in keep THEN <<rows[i]>> ELSE <<>>) \o Pick(rows, keep, i + 1)

TakeRows(t, keep) == [t EXCEPT !.rows = Pick(t.rows, keep, 1)]

\* The rank of a matrix whose rows are unit vectors or zero vectors: the
\* number of distinct non-zero rows.
RowVectors(t) == {t.rows[i].cells : i \in 1..Len(t.rows)}

IsZero(v) == \A c \in DOMAIN v : v[c] = 0

Rank(t) == Cardinality({v \in RowVectors(t) : ~IsZero(v)})

RankDeficient(t) == Rank(t) < Len(t.cols)

\* A least-squares fit by inverting the normal equations, which raises on a
\* singular matrix.
FitFailsOnSingular(t) == Len(t.rows) = 0 \/ RankDeficient(t)

\* LinearRegression.fit solves by lstsq (minimum-norm solution): it raises
\* only when there is no sample at all.
FitFails(t) == Len(t.rows) = 0

\* lr.coef_: one coefficient per column of the training matrix; a
\* coefficient is known by the column it belongs to.
Coefficients(t) == [j \in 1..Len(t.cols) |-> t.cols[j]]

\* A zip over the columns of the whole frame instead of those of X.
ZipFrameColumns(names, coefs) ==
    [j \in 1..Min(Len(df.cols), Len(coefs)) |->
        Line("coef", df.cols[j], j, <<>>)]

\* zip(X.columns, lr.coef_): pairs up to the shorter of the two; the line of
\* pair j names the column and carries coefficient number j.
ZipLines(names, coefs) ==
    [j \in 1..Min(Len(names), Len(coefs)) |-> Line("coef", names[j], j, <<>>)]

Regressor ==
    /\ pc = "regress"
    /\ ran' = Append(ran, pc)
    /\ LET n == Len(X.rows)
           test == IF n = 0 THEN {} ELSE TestPositions(n)
           tr == TakeRows(X, (1..n) \ test)
           te == TakeRows(X, test)
       IN  IF SplitFails(n)
           THEN /\ pc' = AfterError(pc)
                /\ err' = Error(pc, "ValueError", "empty_train_set")
                /\ UNCHANGED <<X_train, X_test, coef, out>>
           ELSE /\ X_train' = tr
                /\ X_test' = te
                /\ IF FitFails(tr)
                   THEN /\ pc' = AfterError(pc)
                        /\ err' = IF Len(tr.rows) = 0
                                  THEN Error(pc, "ValueError", "no_samples")
                                  ELSE Error(pc, "LinAlgError", "singular_matrix")
                        /\ UNCHANGED <<coef, out>>
                   ELSE /\ coef' = Coefficients(tr)
                        /\ out' = out \o <<Line("R2", "", 0, <<>>),
                                           Line("RMSE", "", 0, <<>>),
                                           Line("importances", "", 0, <<>>)>>
                                      \o ZipLines(X.cols, coef')
                        /\ pc' = NextCell(pc)
                        /\ err' = err
    /\ UNCHANGED <<csv, fileOk, sil, shift, df, X, y, X_scaled, X_pca, scores,
                   best_k, rawName, cleanName>>

----------------------------------------------------------------------------
(* Cell 685b03ee: StandardScaler, PCA, the K search, the final K-Means. *)

\* The number a feature vector is known by: the place of its 1, or 0.
Code(v) ==
    IF IsZero(v) THEN 0
    ELSE CHOOSE j \in 1..Len(features) : v[features[j]] = 1

\* StandardScaler needs at least one sample.
ScalerFails(t) == Len(t.rows) = 0

\* fit_transform(X): an array, one standardized row per row of X, in X's
\* order.  Standardizing is affine and increasing in every column, so two
\* rows are equal after it exactly when they were equal before: a
\* standardized row is kept as the number of the vector it came from.
RECURSIVE ScaleRows(_, _)
ScaleRows(rows, n) ==
    IF n = 0 THEN <<>>
    ELSE Append(ScaleRows(rows, n - 1), Code(rows[n].cells))

Standardize(t) == ScaleRows(t.rows, Len(t.rows))

\* PCA(n_components=2) needs n_components <= min(n_samples, n_features).
PCAFails(xs) == Min(Len(xs), Len(features)) < 2

\* The two coordinates of each row, a function of that row's vector.
RECURSIVE ProjectRows(_, _)
ProjectRows(xs, n) ==
    IF n = 0 THEN <<>>
    ELSE Append(ProjectRows(xs, n - 1), <<xs[n], Len(features) - xs[n]>>)

Project(xs) == ProjectRows(xs, Len(xs))

random_state == 42

\* KMeans raises when there are fewer samples than clusters.
KMeansFails(xs, k) == Len(xs) < k

\* The place of a vector among the distinct vectors of the data.
Place(xs, v) == Cardinality({c \in Range(xs) : c <= v})

RECURSIVE LabelRows(_, _, _)
LabelRows(xs, k, n) ==
    IF n = 0 THEN <<>>
    ELSE Append(LabelRows(xs, k, n - 1),
                (Place(xs, xs[n]) - 1 + random_state) % k)

\* fit_predict: one label in 0..k-1 per row; equal rows get equal labels;
\* with d distinct rows there are min(k, d) distinct labels (with d < k
\* scikit-learn warns that it found fewer distinct clusters than asked for).
\* Which label a cluster gets depends on the seed.
KMeansLabels(xs, k) == LabelRows(xs, k, Len(xs))

\* silhouette_score raises unless 2 <= number of labels <= n_samples - 1.
SilhouetteFails(xs, labels) ==
    LET nl == Cardinality(Range(labels))
    IN  ~(2 <= nl /\ nl <= Len(xs) - 1)

\* range(a, b)
PyRange(a, b) == [i \in 1..(b - a) |-> a + i - 1]

Candidates == PyRange(2, 10)

\* One pass of the loop body for candidate k: the score, or what it raised.
FitAndScore(xs, k) ==
    IF KMeansFails(xs, k)
    THEN [cause |-> "n_samples_lt_n_clusters", score |-> 0]
    ELSE IF SilhouetteFails(xs, KMeansLabels(xs, k))
         THEN [cause |-> "n_labels_invalid", score |-> 0]
         ELSE [cause |-> "none", score |-> sil[k]]

RECURSIVE KSearch(_, _, _)

\* A loop body wrapped in try/except that goes on to the next candidate.
SkipCandidate(xs, ks, acc, cause) == KSearch(xs, Tail(ks), acc)

\* An exception in the loop body leaves the loop and the cell; scores keeps
\* what was entered before.
Abort(xs, ks, acc, cause) == [scores |-> acc, cause |-> cause]

\* for k in range(2, 10): scores[k] = ...   The dict is the sequence of its
\* <<key, value>> entries in insertion order.
KSearch(xs, ks, acc) ==
    IF ks = <<>> THEN [scores |-> acc, cause |-> "none"]
    ELSE LET r == FitAndScore(xs, Head(ks))
         IN  IF r.cause # "none" THEN Abort(xs, ks, acc, r.cause)
             ELSE KSearch(xs, Tail(ks), Append(acc, <<Head(ks), r.score>>))

\* max over the entries from i on, best being the entry held so far: Python's
\* max keeps the first of equal maxima.
RECURSIVE MaxScan(_, _, _)
MaxScan(d, i, best) ==
    IF i > Len(d) THEN best[1]
    ELSE MaxScan(d, i + 1, IF d[i][2] > best[2] THEN d[i] ELSE best)

RECURSIVE MaxScanLast(_, _, _)
MaxScanLast(d, i, best) ==
    IF i > Len(d) THEN best[1]
    ELSE MaxScanLast(d, i + 1, IF d[i][2] >= best[2] THEN d[i] ELSE best)

\* A max that keeps the last of equal maxima.
PyMaxLast(d) == MaxScanLast(d, 2, d[1])

\* max(scores, key=scores.get)
PyMax(d) == MaxScan(d, 2, d[1])

\* best_k before the cell has assigned it.
NoK == 0

RECURSIVE RowsWith(_, _, _, _)
RowsWith(rows, name, arr, n) ==
    IF n = 0 THEN <<>>
    ELSE Append(RowsWith(rows, name, arr, n - 1),
                [id |-> rows[n].id,
                 cells |-> (name :> arr[n]) @@ rows[n].cells])

RECURSIVE Reverse(_)
Reverse(s) == IF s = <<>> THEN <<>> ELSE Append(Reverse(Tail(s)), Head(s))

\* A column assignment that lays the array on the rows in reverse.
AssignColumnReversed(t, name, arr) ==
    [cols |-> Append(t.cols, name),
     rows |-> RowsWith(t.rows, name, Reverse(arr), Len(t.rows))]

\* df[name] = arr for an array: by position, row i gets arr[i]; a new column
\* goes last.
AssignColumn(t, name, arr) ==
    [cols |-> Append(t.cols, name),
     rows |-> RowsWith(t.rows, name, arr, Len(t.rows))]

RECURSIVE ColumnRows(_, _, _)
ColumnRows(arr, j, n) ==
    IF n = 0 THEN <<>> ELSE Append(ColumnRows(arr, j, n - 1), arr[n][j])

\* arr[:, j]
Column(arr, j) == ColumnRows(arr, j, Len(arr))

Clusterer ==
    /\ pc = "cluster"
    /\ ran' = Append(ran, pc)
    /\ \E xs \in {Standardize(X)} :
       \E search \in {KSearch(xs, Candidates, <<>>)} :
           IF ScalerFails(X)
           THEN /\ pc' = AfterError(pc)
                /\ err' = Error(pc, "ValueError", "no_samples")
                /\ UNCHANGED <<X_scaled, X_pca, scores, best_k, out, df>>
           ELSE IF PCAFails(xs)
           THEN /\ X_scaled' = xs
                /\ pc' = AfterError(pc)
                /\ err' = Error(pc, "ValueError", "n_components_too_large")
                /\ UNCHANGED <<X_pca, scores, best_k, out, df>>
           ELSE IF search.cause # "none"
           THEN /\ X_scaled' = xs
                /\ X_pca' = Project(xs)
                /\ scores' = search.scores
                /\ pc' = AfterError(pc)
                /\ err' = Error(pc, "ValueError", search.cause)
                /\ UNCHANGED <<best_k, out, df>>
           ELSE IF search.scores = <<>>
           THEN /\ X_scaled' = xs
                /\ X_pca' = Project(xs)
                /\ scores' = search.scores
                /\ pc' = AfterError(pc)
                /\ err' = Error(pc, "ValueError", "max_of_empty")
                /\ UNCHANGED <<best_k, out, df>>
           ELSE /\ X_scaled' = xs
                /\ X_pca' = Project(xs)
                /\ scores' = search.scores
                /\ best_k' = PyMax(scores')
                /\ out' = Append(out, Line("best_k", "", best_k', <<>>))
                /\ \E labelled \in {AssignColumn(df, "cluster",
                                                 KMeansLabels(xs, best_k'))} :
                   \E withPC1 \in {AssignColumn(labelled, "PC1",
                                                Column(X_pca', 1))} :
                      df' = AssignColumn(withPC1, "PC2", Column(X_pca', 2))
                /\ pc' = NextCell(pc)
                /\ err' = err
    /\ UNCHANGED <<csv, fileOk, sil, shift, X, y, X_train, X_test, coef,
                   rawName, cleanName>>

----------------------------------------------------------------------------
(* Cells c8ca8be9 and 0476c2f3: the scatter plot and the example players. *)

PlotCols == <<"PC1", "PC2", "cluster">>

ReportCols == <<"first", "last", "on_base_percent", "slg_percent",
                "wrcplus", "war">>

\* sorted(s) for a set of integers.
RECURSIVE Sorted(_)
Sorted(s) ==
    IF s = {} THEN <<>>
    ELSE LET m == CHOOSE a \in s : \A b \in s : a <= b
         IN  <<m>> \o Sorted(s \ {m})

\* df[df['cluster'] == c] ... .head(): the labels of the first five rows of
\* cluster c.
RECURSIVE MemberIds(_, _, _)
MemberIds(rows, c, i) ==
    IF i > Len(rows) THEN <<>>
    ELSE (IF rows[i].cells["cluster"] = c THEN <<rows[i].id>> ELSE <<>>)
         \o MemberIds(rows, c, i + 1)

HeadFive(s) == SubSeq(s, 1, Min(5, Len(s)))

RECURSIVE SampleLines(_, _)
SampleLines(t, cs) ==
    IF cs = <<>> THEN <<>>
    ELSE <<Line("cluster_header", "", Head(cs), <<>>),
           Line("cluster_sample", "", Head(cs),
                HeadFive(MemberIds(t.rows, Head(cs), 1)))>>
         \o SampleLines(t, Tail(cs))

PlotCell ==
    /\ pc = "plot"
    /\ ran' = Append(ran, pc)
    /\ IF HasColumns(df, PlotCols)
       THEN /\ out' = Append(out, Line("scatter_plot", "", 0, <<>>))
            /\ pc' = NextCell(pc)
            /\ err' = err
       ELSE /\ pc' = AfterError(pc)
            /\ err' = Error(pc, "ValueError", "missing_column")
            /\ out' = out
    /\ UNCHANGED <<csv, fileOk, sil, shift, df, X, y, X_train, X_test, coef,
                   X_scaled, X_pca, scores, best_k, rawName, cleanName>>

SampleCell ==
    /\ pc = "samples"
    /\ ran' = Append(ran, pc)
    /\ IF ~HasColumns(df, <<"cluster">>)
       THEN /\ pc' = AfterError(pc)
            /\ err' = Error(pc, "KeyError", "missing_column")
            /\ out' = out
       ELSE LET cs == Sorted({df.rows[i].cells["cluster"] :
                                 i \in 1..Len(df.rows)})
            IN  IF cs # <<>> /\ ~HasColumns(df, ReportCols)
                THEN /\ out' = Append(out, Line("cluster_header", "",
                                                Head(cs), <<>>))
                     /\ pc' = AfterError(pc)
                     /\ err' = Error(pc, "KeyError", "missing_column")
                ELSE /\ out' = out \o SampleLines(df, cs)
                     /\ pc' = NextCell(pc)
                     /\ err' = err
    /\ UNCHANGED <<csv, fileOk, sil, shift, df, X, y, X_train, X_test, coef,
                   X_scaled, X_pca, scores, best_k, rawName, cleanName>>

----------------------------------------------------------------------------
(* The runs. *)

\* The kernel before the first cell, given a file, its oracles (the
\* silhouette scores and the split's rotation) and one raw column name.
InitWith(files, exists, oracles, shifts, names) ==
    /\ csv \in files
    /\ fileOk \in exists
    /\ sil \in oracles
    /\ shift \in shifts
    /\ rawName \in names
    /\ cleanName = None
    /\ pc = "load"
    /\ ran = <<>>
    /\ err = NoError
    /\ out = <<>>
    /\ df = EmptyTable
    /\ X = EmptyTable
    /\ y = <<>>
    /\ X_train = EmptyTable
    /\ X_test = EmptyTable
    /\ coef = <<>>
    /\ X_scaled = <<>>
    /\ X_pca = <<>>
    /\ scores = <<>>
    /\ best_k = NoK

\* Any file of the model, present or not.
Init == InitWith(Tables, BOOLEAN, BasicOracles, 0..MaxShift, {SampleName})

\* Fully populated files under every silhouette oracle.
InitK == InitWith(ScoreTables, {TRUE}, SilOracles, {0}, {SampleName})

\* Every raw column name over a few files.
InitNames == InitWith(ScoreTables, BOOLEAN, BasicOracles, {0}, RawNames)

Next ==
    \/ Loader
    \/ Preparer
    \/ Regressor
    \/ Clusterer
    \/ PlotCell
    \/ SampleCell

Spec == Init /\ [][Next]_vars

SpecK == InitK /\ [][Next]_vars

SpecNames == InitNames /\ [][Next]_vars

----------------------------------------------------------------------------
(* Vocabulary of the properties. *)

\* The cell has run and did not raise.
Completed(cell) == cell \in Range(ran) /\ err.cell # cell

LinesOf(o, kind) == SelectSeq(o, LAMBDA l : l.kind = kind)

\* The file rows (1-based positions) with nothing missing in the ten feature
\* columns and in war.
CompleteRows ==
    {i \in 1..Len(csv.rows) :
        \A c \in Range(features) \cup {target} : csv.rows[i].cells[c] # NA}

\* The file has the feature columns and every row of it lacks at least one
\* feature value.
EveryRowMissesAFeature ==
    /\ Range(features) \subseteq Range(csv.cols)
    /\ \A i \in 1..Len(csv.rows) :
          \E c \in Range(features) : csv.rows[i].cells[c] = NA

\* Nothing was emitted after the Loader's list of column names.
NothingReported == \A i \in 1..Len(out) : out[i].kind = "columns"

FeatureVectors ==
    {[c \in Range(features) |-> csv.rows[i].cells[c]] : i \in 1..Len(csv.rows)}

----------------------------------------------------------------------------
\* C1: once the Feature Preparer has run, the retained table is exactly the
\* file's rows with no missing feature or war value, in file order: as many
\* rows as there are such file rows (never more than the file has), labels
\* strictly increasing, every retained row equal to the file row of its
\* label; X and y have no missing cell, and row i of X, of y and of the
\* retained table carry the same label and that file row's values.
C1_RetainedRows ==
    Completed("prepare") =>
        /\ Len(df.rows) = Cardinality(CompleteRows)
        /\ Len(df.rows) <= Len(csv.rows)
        /\ Len(X.rows) = Len(df.rows)
        /\ Len(y) = Len(df.rows)
        /\ X.cols = features
        /\ \A i \in 1..Len(df.rows) :
              LET src == df.rows[i].id + 1
              IN  /\ src \in CompleteRows
                  /\ i > 1 => df.rows[i - 1].id < df.rows[i].id
                  /\ \A c \in Range(csv.cols) :
                        df.rows[i].cells[c] = csv.rows[src].cells[c]
                  /\ X.rows[i].id = df.rows[i].id
                  /\ y[i].id = df.rows[i].id
                  /\ DOMAIN X.rows[i].cells = Range(features)
                  /\ \A c \in Range(features) :
                        /\ X.rows[i].cells[c] = csv.rows[src].cells[c]
                        /\ X.rows[i].cells[c] # NA
                  /\ y[i].val = csv.rows[src].cells[target]
                  /\ y[i].val # NA

\* Some rows were dropped, one of them for its missing war alone, and some
\* were kept.
C1_Witness ==
    /\ Completed("prepare")
    /\ 0 < Len(df.rows)
    /\ Len(df.rows) < Len(csv.rows)
    /\ \E i \in 1..Len(csv.rows) :
          /\ csv.rows[i].cells[target] = NA
          /\ \A c \in Range(features) : csv.rows[i].cells[c] # NA

----------------------------------------------------------------------------
\* C2: when the Clusterer completes, the scores were entered for K = 2, 3,
\* ..., 9 in that order and for no other K, each is the silhouette score of
\* its K on the standardized rows of all retained rows, best_k is one of the
\* candidates, no candidate scores higher than best_k, and every candidate
\* below best_k scores strictly lower (on a tie the lowest K wins).
C2_BestK ==
    Completed("cluster") =>
        /\ Len(scores) = 8
        /\ \A i \in 1..Len(scores) :
              /\ scores[i][1] = i + 1
              /\ scores[i][2] = sil[i + 1]
        /\ Len(X_scaled) = Len(df.rows)
        /\ best_k \in 2..9
        /\ \A k \in 2..9 :
              /\ sil[k] <= sil[best_k]
              /\ k < best_k => sil[k] < sil[best_k]

\* The best score is reached by several candidates and not by K = 2.
C2_Witness ==
    /\ Completed("cluster")
    /\ best_k > 2
    /\ \E k \in 2..9 : k > best_k /\ sil[k] = sil[best_k]

----------------------------------------------------------------------------
(* The end-to-end scenario: a file of 20 fully populated rows. *)

\* The file is there, has every column the notebook names and 20 rows, and
\* no feature or war value is missing.
Populated20 ==
    /\ fileOk
    /\ Range(FullHeader) \subseteq Range(csv.cols)
    /\ Len(csv.rows) = 20
    /\ CompleteRows = 1..Len(csv.rows)

\* What the scenario promises of a completed run: ten coefficient lines,
\* line j naming feature j and carrying coefficient j of the fit, a best K in
\* 2..9, and a cluster label in 0..K-1 on each of the 20 rows.
C3_Post ==
    /\ pc = "done"
    /\ LET cl == LinesOf(out, "coef")
       IN  /\ Len(cl) = 10
           /\ Len(coef) = 10
           /\ \A j \in 1..Len(cl) :
                 /\ cl[j].name = features[j]
                 /\ cl[j].k = j
                 /\ coef[j] = features[j]
    /\ best_k \in 2..9
    /\ Len(df.rows) = 20
    /\ \A i \in 1..Len(df.rows) :
          /\ df.rows[i].id = i - 1
          /\ df.rows[i].cells["cluster"] \in 0..(best_k - 1)

\* C3 as stated: a run on such a file never halts on an error.
C3_Original == Populated20 => pc # "halted"

\* C3, amended: a run on a file of 20 fully populated rows that hold at
\* least two distinct feature vectors never halts on an error and, until it
\* is done, always has its next cell to run; once done it has printed exactly
\* ten coefficients paired with the feature names in list order, chosen a
\* best K in [2, 9] and put a cluster label in [0, K-1] on every one of the
\* 20 rows.
C3_EndToEnd ==
    (Populated20 /\ Cardinality(FeatureVectors) >= 2) =>
        /\ pc # "halted"
        /\ err = NoError
        /\ pc = "done" \/ ENABLED Next
        /\ pc = "done" => C3_Post

\* Such a run, completed.
C3_Witness ==
    /\ Populated20
    /\ Cardinality(FeatureVectors) >= 2
    /\ C3_Post

----------------------------------------------------------------------------
\* C4: when every row of the file lacks a feature value, the Feature Preparer
\* leaves an empty table and an empty X; the run goes no further than the
\* Regressor, where train_test_split raises for want of rows (a ValueError:
\* the train set would be empty); nothing is emitted but the Loader's list of
\* column names.
C4_EmptyInput ==
    (Completed("prepare") /\ EveryRowMissesAFeature) =>
        /\ Len(df.rows) = 0
        /\ Len(X.rows) = 0
        /\ Len(y) = 0
        /\ pc \in {"regress", "halted"}
        /\ pc = "halted" =>
              /\ err.stage = "Regressor"
              /\ err.exc = "ValueError"
              /\ err.cause = "empty_train_set"
        /\ NothingReported

\* A file with rows, each lacking a feature value, after the run has ended.
C4_Witness ==
    /\ Len(csv.rows) > 1
    /\ EveryRowMissesAFeature
    /\ pc = "halted"
    /\ err.stage = "Regressor"

----------------------------------------------------------------------------
(* The Regressor on a rank-deficient feature matrix. *)

RegressorRan == Completed("prepare") /\ "regress" \in Range(ran)

RegressionPrinted ==
    /\ Len(LinesOf(out, "R2")) = 1
    /\ Len(LinesOf(out, "RMSE")) = 1
    /\ Len(LinesOf(out, "coef")) = Len(features)

\* C5 as stated: on a rank-deficient X the Regressor ends in an error and
\* prints neither metrics nor coefficients.
C5_Original ==
    (RegressorRan /\ RankDeficient(X)) =>
        /\ err.stage = "Regressor"
        /\ LinesOf(out, "R2") = <<>>
        /\ LinesOf(out, "RMSE") = <<>>
        /\ LinesOf(out, "coef") = <<>>

\* C5, amended: rank deficiency raises nothing.  On a rank-deficient X of at
\* least two rows the Regressor completes and prints R2, RMSE and one
\* coefficient per feature; on one of fewer rows it halts on the empty train
\* set and prints nothing.  No run ends on a singular-matrix error.
C5_RankDeficientFit ==
    /\ err.cause # "singular_matrix"
    /\ (RegressorRan /\ RankDeficient(X)) =>
          IF Len(X.rows) >= 2
          THEN /\ Completed("regress")
               /\ RegressionPrinted
          ELSE /\ err.stage = "Regressor"
               /\ err.cause = "empty_train_set"
               /\ NothingReported

\* 20 retained rows with fewer independent rows than features, fitted.
C5_Witness ==
    /\ Completed("regress")
    /\ Len(X.rows) = 20
    /\ RankDeficient(X)
    /\ RegressionPrinted

----------------------------------------------------------------------------
(* Stage order. *)

CellOrder == <<"load", "prepare", "regress", "cluster", "plot", "samples">>

AllOutputs(o) ==
    /\ Len(LinesOf(o, "R2")) = 1
    /\ Len(LinesOf(o, "RMSE")) = 1
    /\ Len(LinesOf(o, "coef")) = 10
    /\ Len(LinesOf(o, "best_k")) = 1
    /\ Len(LinesOf(o, "scatter_plot")) = 1
    /\ Len(LinesOf(o, "cluster_sample")) >= 1

\* One step of a run: a cell of a run that has neither halted nor finished
\* runs, it is the cell that follows the cells run so far, and the run then
\* stands at the following cell or has halted; it has halted exactly when
\* the cell raised, and it is done only with every output emitted.
CellStep ==
    /\ pc \notin {"halted", "done"}
    /\ err = NoError
    /\ ran' = Append(ran, pc)
    /\ ran' = SubSeq(CellOrder, 1, Len(ran'))
    /\ pc' \in {NextCell(pc), "halted"}
    /\ pc' = "halted" <=> err' # NoError
    /\ pc' = "halted" => err'.cell = pc /\ err'.stage = StageOf(pc)
    /\ pc' = "done" => AllOutputs(out')

\* C6: every step of every run is such a step: the cells run in the order
\* Loader, Feature Preparer, Regressor, Clusterer, Reporter, one at a time;
\* a run that completes has emitted R2, RMSE, ten coefficients, the best K,
\* the scatter plot and the cluster samples; a cell that raises halts the
\* run, and after a halt no cell runs again.
C6_StageOrder == [][CellStep]_vars

\* A run halted in the Clusterer: the Regressor's report was printed, and the
\* Reporter never ran.
C6_Witness ==
    /\ pc = "halted"
    /\ err.stage = "Clusterer"
    /\ ran = <<"load", "prepare", "regress", "cluster">>
    /\ Len(LinesOf(out, "coef")) = 10

----------------------------------------------------------------------------
(* The Loader's column names. *)

\* What one raw character becomes.
CharImage(ch) ==
    CASE ch = " " -> <<"_">>
      [] ch = "+" -> <<"p", "l", "u", "s">>
      [] ch = "%" -> <<"p", "e", "r", "c", "e", "n", "t">>
      [] ch = "W" -> <<"w">>
      [] OTHER    -> <<ch>>

RECURSIVE Images(_)
Images(s) == IF s = <<>> THEN <<>> ELSE CharImage(Head(s)) \o Images(Tail(s))

\* The raw name from its first to its last character that is not whitespace.
Core(s) ==
    LET solid == {i \in 1..Len(s) : s[i] \notin {" ", "\t"}}
    IN  IF solid = {} THEN <<>>
        ELSE SubSeq(s, CHOOSE a \in solid : \A b \in solid : a <= b,
                       CHOOSE a \in solid : \A b \in solid : a >= b)

\* C7: once the Loader has run, the column name is the raw name without its
\* leading and trailing whitespace, with every upper-case letter lowered,
\* every space turned into '_', every '+' into 'plus' and every '%' into
\* 'percent'; it holds no upper-case letter, no space, no '+' and no '%'.
C7_NormalizedName ==
    Completed("load") =>
        /\ cleanName = Images(Core(rawName))
        /\ \A i \in 1..Len(cleanName) : cleanName[i] \notin {"W", " ", "+", "%"}

\* A raw name with leading whitespace, an upper-case letter and a '+'.
C7_Witness ==
    /\ Completed("load")
    /\ Len(rawName) = 3
    /\ rawName[1] \in {" ", "\t"}
    /\ rawName[2] = "W"
    /\ rawName[3] = "+"
    /\ cleanName = <<"w", "p", "l", "u", "s">>

----------------------------------------------------------------------------
(* The Clusterer's effect on the kernel. *)

ClustererFrame ==
    /\ X' = X
    /\ y' = y
    /\ X_train' = X_train
    /\ X_test' = X_test
    /\ coef' = coef
    /\ pc' = "halted" => df' = df
    /\ pc' = "plot" =>
          /\ df'.cols = df.cols \o <<"cluster", "PC1", "PC2">>
          /\ Len(df'.rows) = Len(df.rows)
          /\ Len(X_scaled') = Len(df.rows)
          /\ Len(X_pca') = Len(df.rows)
          /\ \A i \in 1..Len(df.rows) :
                /\ df'.rows[i].id = df.rows[i].id
                /\ DOMAIN df'.rows[i].cells = Range(df'.cols)
                /\ \A c \in Range(df.cols) :
                      df'.rows[i].cells[c] = df.rows[i].cells[c]
                /\ X_scaled'[i] = Code(X.rows[i].cells)
                /\ df'.rows[i].cells["cluster"] =
                      KMeansLabels(X_scaled', best_k')[i]
                /\ df'.rows[i].cells["PC1"] = X_pca'[i][1]
                /\ df'.rows[i].cells["PC2"] = X_pca'[i][2]
                /\ X_pca'[i] = Project(X_scaled')[i]
                /\ \A j \in 1..Len(df.rows) :
                      X.rows[i].cells = X.rows[j].cells =>
                          /\ df'.rows[i].cells["cluster"] =
                                df'.rows[j].cells["cluster"]
                          /\ df'.rows[i].cells["PC1"] = df'.rows[j].cells["PC1"]

\* C8: a step of the Clusterer leaves X, y, the train/test partitions and the
\* fitted coefficients as they were; if it raises, the table is as it was; if
\* it completes, the table has its old columns followed by 'cluster', 'PC1'
\* and 'PC2', the same rows in the same order with their old cells, the
\* standardized array and the projection have one row per retained row,
\* computed from that row of X, and each row's 'cluster' is the K-Means label
\* of its own standardized row, its 'PC1' and 'PC2' its own projection (rows
\* with equal features get equal values).
C8_ClustererFrame == [][pc = "cluster" => ClustererFrame]_vars

\* The Clusterer has completed on rows that fall in different clusters.
C8_Witness ==
    /\ pc = "plot"
    /\ Len(df.rows) >= 10
    /\ df.rows[1].cells["cluster"] # df.rows[Len(df.rows)].cells["cluster"]
    /\ df.rows[1].cells["PC1"] # df.rows[Len(df.rows)].cells["PC1"]

----------------------------------------------------------------------------
\* C10: the Clusterer completes only with a score entered for each of
\* K = 2, ..., 9, in that order, each fitted on data of at least K rows;
\* when it raises, best_k is unassigned and unannounced, the table has none
\* of 'cluster', 'PC1', 'PC2', and, when the raise came from the K search,
\* the scores entered are those of the candidates before the failing one,
\* which is the first candidate with more clusters than rows or with a
\* labelling silhouette_score rejects.
C10_UnconditionalSearch ==
    /\ Completed("cluster") =>
          /\ Len(scores) = 8
          /\ \A i \in 1..Len(scores) : scores[i][1] = i + 1
          /\ \A k \in 2..9 : Len(X_scaled) >= k
    /\ err.cell = "cluster" =>
          /\ pc = "halted"
          /\ best_k = NoK
          /\ LinesOf(out, "best_k") = <<>>
          /\ Range(df.cols) \cap {"cluster", "PC1", "PC2"} = {}
          /\ err.cause \in {"n_samples_lt_n_clusters", "n_labels_invalid"} =>
                /\ Len(scores) < 8
                /\ \A i \in 1..Len(scores) : scores[i][1] = i + 1
                /\ LET k == Len(scores) + 2
                       d == Cardinality(Range(X_scaled))
                   IN  \/ Len(X_scaled) < k
                       \/ Min(k, d) < 2
                       \/ Min(k, d) > Len(X_scaled) - 1

\* The search halted after some candidates had been scored.
C10_Witness ==
    /\ err.cell = "cluster"
    /\ Len(scores) >= 2
    /\ Len(X_scaled) >= 2

====
